---------------------------- MODULE Spec2Model ----------------------------
(***************************************************************************)
(* A model of the Z80 emulator core of z80emu (src/z80.ts): the register   *)
(* file, the flag engine, the decoder and the fetch-decode-execute step,   *)
(* together with the driving loop of src/main.ts.                          *)
(*                                                                         *)
(* JavaScript numbers are modelled by integers.  The bitwise operators of  *)
(* the source act on the 32-bit two's complement image of their operands;  *)
(* every operand the emulator produces within the explored runs stays      *)
(* below 2^30 in magnitude, so the operators below work on the low 30 bits.*)
(***************************************************************************)
EXTENDS Integers, Sequences, FiniteSets, TLC

VARIABLES
    mem,      \* this.mem : the Buffer, as a sequence; address a is mem[a + 1]
    rf,       \* this.rf  : the register file
    cycles,   \* this.cycles : the cumulative T-state counter (a JS value)
    dyn,      \* properties of this.rf created at run time (rf[<number>] = ...)
    call,     \* the public operation called last, and how it ended
    ins,      \* the Instruction the last call returned (none after a step)
    nsteps,   \* number of step() calls made so far
    ncalls,   \* number of calls of the other public methods made so far
    halted    \* history: an earlier step() executed the HALT opcode

vars == <<mem, rf, cycles, dyn, call, ins, nsteps, ncalls, halted>>

-----------------------------------------------------------------------------
(* JavaScript values                                                       *)

\* The value `undefined` (an out-of-range Buffer index read, a missing table
\* entry, a field never assigned).  It is kept apart from every number.
undefined == 0 - 2^30

\* ToInt32 / ToUint8 of a value: undefined converts to 0.
ToNumber32(v) == IF v = undefined THEN 0 ELSE v

W30 == 2^30

RECURSIVE AndU(_, _)
AndU(a, b) ==
    IF a = 0 \/ b = 0 THEN 0
    ELSE (IF a % 2 = 1 /\ b % 2 = 1 THEN 1 ELSE 0) + 2 * AndU(a \div 2, b \div 2)

RECURSIVE OrU(_, _)
OrU(a, b) ==
    IF a = 0 THEN b
    ELSE IF b = 0 THEN a
    ELSE (IF a % 2 = 1 \/ b % 2 = 1 THEN 1 ELSE 0) + 2 * OrU(a \div 2, b \div 2)

RECURSIVE XorU(_, _)
XorU(a, b) ==
    IF a = 0 THEN b
    ELSE IF b = 0 THEN a
    ELSE (IF (a % 2) # (b % 2) THEN 1 ELSE 0) + 2 * XorU(a \div 2, b \div 2)

\* x & y, where y is a non-negative mask (or both are non-negative).  For a
\* mask 2^k - 1 the result is x modulo 2^k, for a mask 2^k it is bit k of x.
LowMasks == { 1, 3, 7, 15, 31, 63, 127, 255, 65535 }
BitMasks == { 2, 4, 8, 16, 32, 64, 128, 256, 2048, 8192, 65536 }
And(x, y) ==
    IF y \in LowMasks THEN ToNumber32(x) % (y + 1)
    ELSE IF y \in BitMasks THEN ((ToNumber32(x) \div y) % 2) * y
    ELSE AndU(ToNumber32(x) % W30, ToNumber32(y) % W30)
\* x | y and x ^ y on non-negative operands
Or(x, y)  == OrU(ToNumber32(x) % W30, ToNumber32(y) % W30)
Xor(x, y) == XorU(ToNumber32(x) % W30, ToNumber32(y) % W30)
\* ~x
Not(x) == 0 - ToNumber32(x) - 1
\* x << n and x >> n (arithmetic)
Shl(x, n) == ToNumber32(x) * (2^n)
Shr(x, n) == ToNumber32(x) \div (2^n)

\* F applied to the value of v, which is computed once
With(v, F(_)) == CHOOSE y \in { F(x) : x \in { v } } : TRUE

\* b ? 1 : 0
Bit(b) == IF b THEN 1 ELSE 0

\* Buffer element read  buf[i] : undefined outside 0 .. length-1
Index(buf, i) == IF i \in 0 .. (Len(buf) - 1) THEN buf[i + 1] ELSE undefined

\* Buffer element write  buf[i] = v : ignored outside 0 .. length-1, the
\* value is converted to an unsigned byte
Store(buf, i, v) ==
    IF i \in 0 .. (Len(buf) - 1)
    THEN [buf EXCEPT ![i + 1] = ToNumber32(v) % 256]
    ELSE buf

\* buf.readUInt8(off) and buf.readUInt16LE(off) throw a RangeError when the
\* bytes read are not all inside the buffer
InRange8(buf, off)  == off \in 0 .. (Len(buf) - 1)
InRange16(buf, off) == off \in 0 .. (Len(buf) - 2)
readUInt8(buf, off)    == buf[off + 1]
readUInt16LE(buf, off) == buf[off + 1] + 256 * buf[off + 2]

\* buf.slice(from, to) for 0 <= from <= to
slice(buf, from, to) ==
    LET hi == IF to > Len(buf) THEN Len(buf) ELSE to
    IN  IF from >= hi THEN << >> ELSE SubSeq(buf, from + 1, hi)

-----------------------------------------------------------------------------
(* Tables                                                                  *)

\* The mnemonic templates, indexed by opcode (entry k is DECODE_LUT[k + 1]).
\* A template is the sequence of its text pieces; every placeholder
\* character * is a piece of its own.
DECODE_LUT ==
    <<
       <<"NOP">>, <<"LD BC, ", "*", "*">>, <<"LD (BC), A">>, <<"INC BC">>,
       <<"INC B">>, <<"DEC B">>, <<"LD B, ", "*">>, <<"RLCA">>,
       <<"EX AF,AF'">>, <<"ADD HL, BC">>, <<"LD A, (BC)">>, <<"DEC BC">>,
       <<"INC C">>, <<"DEC C">>, <<"LD C, ", "*">>, <<"RRCA">>,
       <<"DJNZ, ", "*">>, <<"LD DE, ", "*", "*">>, <<"LD (DE), A">>, <<"INC DE">>,
       <<"INC D">>, <<"DEC D">>, <<"LD D, ", "*">>, <<"RLA">>,
       <<"JR ", "*">>, <<"ADD HL, DE">>, <<"LD A, (DE)">>, <<"DEC DE">>,
       <<"INC E">>, <<"DEC E">>, <<"LD E, ", "*">>, <<"RRA">>,
       <<"JR NZ, ", "*">>, <<"LD HL, ", "*", "*">>, <<"LD (", "*", "*", "), HL">>, <<"INC HL">>,
       <<"INC H">>, <<"DEC H">>, <<"LD H, ", "*">>, <<"DAA">>,
       <<"JR Z. ", "*">>, <<"ADD HL, HL">>, <<"LD HL, (", "*", "*", ")">>, <<"DEC HL">>,
       <<"INC L">>, <<"DEC L">>, <<"LD L, ", "*">>, <<"CPL">>,
       <<"JR NC, ", "*">>, <<"LD SP, ", "*", "*">>, <<"LD (", "*", "*", "), A">>, <<"INC SP">>,
       <<"INC (HL)">>, <<"DEC (HL)">>, <<"LD (HL), ", "*">>, <<"SCF">>,
       <<"JR C, ", "*">>, <<"ADD HL, SP">>, <<"LD A, (", "*", "*", ")">>, <<"DEC SP">>,
       <<"INC A">>, <<"DEC A">>, <<"LD A, ", "*">>, <<"CCF">>,
       <<"LD B, B">>, <<"LD B, C">>, <<"LD B, D">>, <<"LD B, E">>,
       <<"LD B, H">>, <<"LD B, L">>, <<"LD B, (HL)">>, <<"LD B, A">>,
       <<"LD C, B">>, <<"LD C, C">>, <<"LD C, D">>, <<"LD C, E">>,
       <<"LD C, H">>, <<"LD C, L">>, <<"LD C, (HL)">>, <<"LC C, A">>,
       <<"LD D, B">>, <<"LD D, C">>, <<"LD D, D">>, <<"LD D, E">>,
       <<"LD D, H">>, <<"LD D, L">>, <<"LD D, (HL)">>, <<"LD D, A">>,
       <<"LD E, B">>, <<"LD E, C">>, <<"LD E, D">>, <<"LD E, E">>,
       <<"LD E, H">>, <<"LD E, L">>, <<"LD E, (HL)">>, <<"LD E, A">>,
       <<"LD H, B">>, <<"LD H, C">>, <<"LD H, D">>, <<"LD H, E">>,
       <<"LD H, H">>, <<"LD H, L">>, <<"LD H, (HL)">>, <<"LD H, A">>,
       <<"LD L, B">>, <<"LD L, C">>, <<"LD L, D">>, <<"LD L, E">>,
       <<"LD L, H">>, <<"LD L, L">>, <<"LD L, (HL)">>, <<"LD L, A">>,
       <<"LD (HL), B">>, <<"LD (HL), C">>, <<"LD (HL), D">>, <<"LD (HL), E">>,
       <<"LD (HL), H">>, <<"LD (HL), L">>, <<"HALT">>, <<"LD (HL), A">>,
       <<"LD A, B">>, <<"LD A, C">>, <<"LD A, D">>, <<"LD A, E">>,
       <<"LD A, H">>, <<"LD A, L">>, <<"LD A, (HL)">>, <<"LD A, A">>,
       <<"ADD A, B">>, <<"ADD A, C">>, <<"ADD A, D">>, <<"ADD A, E">>,
       <<"ADD A, H">>, <<"ADD A, L">>, <<"ADD A, (HL)">>, <<"ADD A, A">>,
       <<"ADC A, B">>, <<"ADC A, C">>, <<"ADC A, D">>, <<"ADC A, E">>,
       <<"ADC A, H">>, <<"ADC A, L">>, <<"ADC A, (HL)">>, <<"ADC A, A">>,
       <<"SUB A, B">>, <<"SUB A, C">>, <<"SUB A, D">>, <<"SUB A, E">>,
       <<"SUB A, H">>, <<"SUB A, L">>, <<"SUB A, (HL)">>, <<"SUB A">>,
       <<"SBC A, B">>, <<"SBC A, C">>, <<"SBC A, D">>, <<"SBC A, E">>,
       <<"SBC A, H">>, <<"SBC A, L">>, <<"SBC A, (HL)">>, <<"SBC A, A">>,
       <<"AND A, B">>, <<"AND A, C">>, <<"AND A, D">>, <<"AND A, E">>,
       <<"AND A, H">>, <<"AND A, L">>, <<"AND A, (HL)">>, <<"AND A, A">>,
       <<"XOR A, B">>, <<"XOR A, C">>, <<"XOR A, D">>, <<"XOR A, E">>,
       <<"XOR A, H">>, <<"XOR A, L">>, <<"XOR A, (HL)">>, <<"XOR A, A">>,
       <<"OR A, B">>, <<"OR A, C">>, <<"OR A, D">>, <<"OR A, E">>,
       <<"OR A, H">>, <<"OR A, L">>, <<"OR A, (HL)">>, <<"OR A, A">>,
       <<"CP A, B">>, <<"CP A, C">>, <<"CP A, D">>, <<"CP A, E">>,
       <<"CP A, H">>, <<"CP A, L">>, <<"CP A, (HL)">>, <<"CP A, A">>
    >>

OPCODE_16 ==
    << 1, 3, 8, 9, 11,
       17, 19, 25, 27, 33,
       35, 41, 42, 43, 49,
       51, 57, 59 >>

CONDITION_LUT == << "NZ", "Z", "NC", "C", "PO", "PE", "P", "M" >>
RF_LUT        == << "B", "C", "D", "E", "H", "L", "_HL_", "A" >>
RF_PAIR_LUT   == << "BC", "DE", "HL", "SP" >>
ALU_LUT       == << "ADD_A", "ADC_A", "SUB_A", "SBC_A", "AND", "XOR", "OR", "CP" >>

\* TABLE[k] of the source, for a 0-based index k
Enum(table, k) == table[k + 1]

-----------------------------------------------------------------------------
(* Helpers of class Z80                                                    *)

rot8L(val) ==
    IF And(val, 128) # 0 THEN Or(Shl(val, 1), 1) ELSE And(Shl(val, 1), 254)

rot8R(val) ==
    IF And(val, 1) # 0 THEN Or(Shr(val, 1), 128) ELSE And(Shr(val, 1), 127)

\* (x * 0x11111111) >> 28, for 0 <= x < 2^16, by 16-bit limbs: the product
\* is taken modulo 2^32 as ToInt32 does
MulShr28(x) ==
    LET lo == x * 4369
        hi == (x * 4369 + (lo \div 65536)) % 65536
    IN  IF hi >= 32768 THEN (hi \div 4096) - 16 ELSE hi \div 4096

\* parity() without its second fold (val ^= val >> 2)
parityOneFold(val) ==
    LET v1 == Xor(val, Shr(val, 1))
    IN  And(MulShr28(And(v1, 286331153)), 1)

parity(val) ==
    LET v1 == Xor(val, Shr(val, 1))
        v2 == Xor(v1, Shr(v1, 2))
    IN  And(MulShr28(And(v2, 286331153)), 1)

HexDigit(d) ==
    << "0", "1", "2", "3", "4", "5", "6", "7",
       "8", "9", "A", "B", "C", "D", "E", "F" >>[d + 1]

RECURSIVE toString16(_)
toString16(n) ==
    IF n < 16 THEN HexDigit(n) ELSE toString16(n \div 16) \o HexDigit(n % 16)

RECURSIVE padStart(_, _)
padStart(s, pad) == IF Len(s) >= pad THEN s ELSE padStart("0" \o s, pad)

format16(reg, pad) == padStart(toString16(reg), pad)

-----------------------------------------------------------------------------
(* Register file                                                           *)

NoFlags == [S |-> 0, Z |-> 0, F5 |-> 0, H |-> 0, F3 |-> 0, PV |-> 0, N |-> 0, C |-> 0]

\* reset(): every field of rf is set to 0xFFFF, the two flag sets are
\* replaced by cleared ones, PC and R are zeroed
reset ==
    [ PC |-> 0, SP |-> 65535, IX |-> 65535, IY |-> 65535, I |-> 65535, R |-> 0,
      flags |-> NoFlags, _flags |-> NoFlags,
      A |-> 65535, B |-> 65535, C |-> 65535, D |-> 65535, E |-> 65535,
      H |-> 65535, L |-> 65535,
      AF |-> 65535, BC |-> 65535, DE |-> 65535, HL |-> 65535,
      _A |-> 65535, _B |-> 65535, _C |-> 65535, _D |-> 65535, _E |-> 65535,
      _H |-> 65535, _L |-> 65535,
      _AF |-> 65535, _BC |-> 65535, _DE |-> 65535, _HL |-> 65535 ]

\* reset(), the loop over the properties of rf: a property created at run
\* time (rf[<number>]) is enumerated with the declared ones and set to 0xFFFF
resetProperties(d) ==
    IF DOMAIN d = { } THEN d ELSE [ k \in DOMAIN d |-> 65535 ]

\* clamp(): E and E' (and I, SP, IX, IY, PC) are not among the masked fields
clamp(r) ==
    [ r EXCEPT
        !.A  = And(@, 255),   !._A  = And(@, 255),
        !.B  = And(@, 255),   !._B  = And(@, 255),
        !.C  = And(@, 255),   !._C  = And(@, 255),
        !.D  = And(@, 255),   !._D  = And(@, 255),
        !.H  = And(@, 255),   !._H  = And(@, 255),
        !.L  = And(@, 255),   !._L  = And(@, 255),
        !.AF = And(@, 65535), !._AF = And(@, 65535),
        !.BC = And(@, 65535), !._BC = And(@, 65535),
        !.DE = And(@, 65535), !._DE = And(@, 65535),
        !.HL = And(@, 65535), !._HL = And(@, 65535) ]

\* the linear scan of map() over OPCODE_16
IsOpcode16(opcode) == \E i \in 1 .. Len(OPCODE_16) : OPCODE_16[i] = opcode

\* the flag byte assembled by map()
PackFlags(f) ==
    Or( Or(Or(Shl(f.C, 0), Shl(f.N, 1)), Or(Shl(f.PV, 2), Shl(f.F3, 3))),
        Or(Or(Shl(f.H, 4), Shl(f.F5, 5)), Or(Shl(f.Z, 6), Shl(f.S, 7))) )

\* the two projections of map() and the flag byte, on the clamped file r
\* map() deriving the high halves without the shift (rf.B = rf.BC)
MapPairsToHalvesNoShift(r) ==
    [ r EXCEPT
        !.B = r.BC, !.C = And(r.BC, 255),
        !.D = r.DE, !.E = And(r.DE, 255),
        !.H = r.HL, !.L = And(r.HL, 255),
        !.A = Shr(r.AF, 8) ]

MapPairsToHalves(r) ==
    [ r EXCEPT
        !.B = Shr(r.BC, 8), !.C = And(r.BC, 255),
        !.D = Shr(r.DE, 8), !.E = And(r.DE, 255),
        !.H = Shr(r.HL, 8), !.L = And(r.HL, 255),
        !.A = Shr(r.AF, 8) ]

MapHalvesToPairs(r) ==
    [ r EXCEPT
        !.AF = Shl(r.A, 8),
        !.BC = Or(r.C, Shl(r.B, 8)),
        !.DE = Or(r.E, Shl(r.D, 8)),
        !.HL = Or(r.L, Shl(r.H, 8)) ]

MapFlags(r) == [ r EXCEPT !.AF = Or(And(@, 65280), PackFlags(r.flags)) ]

map(r0, opcode) ==
    With(clamp(r0),
         LAMBDA r : With(IF IsOpcode16(opcode) THEN MapPairsToHalves(r)
                         ELSE MapHalvesToPairs(r),
                         MapFlags))

\* j8_stub() negating the displacement by complement alone, without the + 1
j8_stubOnesComplement(pc, byte0) ==
    LET byte == And(byte0, 255)
    IN  IF And(byte, 128) # 0
        THEN pc - And(Not(byte), 255)
        ELSE pc + byte

\* j8_stub(byte): the new PC
j8_stub(pc, byte0) ==
    LET byte == And(byte0, 255)
    IN  IF And(byte, 128) # 0
        THEN pc - (And(Not(byte), 255) + 1)
        ELSE pc + byte

f358_stub(f, byte) ==
    [ f EXCEPT !.F3 = Bit(And(byte, 8) # 0), !.F5 = Bit(And(byte, 32) # 0) ]

-----------------------------------------------------------------------------
(* ALU / flag engine: each operator returns the new flag set               *)

\* add8() comparing bits 7 and 8 of the plain sum, without widening the
\* operands' signs to nine bits
add8PlainSum(f, bl, br) ==
    LET byte == And(bl + br, 255)
        s    == IF br >= 0 THEN 1 ELSE -1
        sr   == br * s
        sum  == bl + sr
        pv   == Shr(And(sum, 128), 7) # Shr(And(sum, 256), 8)
    IN  [ f358_stub(f, byte) EXCEPT
            !.S  = Bit(And(byte, 128) # 0),
            !.C  = Bit(And(bl + br, 256) # 0),
            !.Z  = Bit(byte = 0),
            !.H  = Bit(And(And(bl, 15) + s * And(sr, 15), 16) # 0),
            !.PV = Bit(pv),
            !.N  = 0 ]

add8(f, bl, br) ==
    LET byte == And(bl + br, 255)
        s    == IF br >= 0 THEN 1 ELSE -1
        sr   == br * s
        bl2  == Or(bl, Shl(And(bl, 128), 1))
        sr2  == Or(sr, Shl(And(sr, 128), 1))
        sum  == bl2 + sr2
        pv   == Shr(And(sum, 128), 7) # Shr(And(sum, 256), 8)
    IN  [ f358_stub(f, byte) EXCEPT
            !.S  = Bit(And(byte, 128) # 0),
            !.C  = Bit(And(bl + br, 256) # 0),
            !.Z  = Bit(byte = 0),
            !.H  = Bit(And(And(bl, 15) + s * And(sr, 15), 16) # 0),
            !.PV = Bit(pv),
            !.N  = 0 ]

sub8(f, bl, br) == [ add8(f, bl, 0 - br) EXCEPT !.N = 1 ]

\* and() storing parity() in PV without inverting it
andOddParity(f, val) ==
    LET byte == And(val, 255)
        pv   == parity(byte)
    IN  [ f358_stub(f, byte) EXCEPT
            !.S  = Bit(And(byte, 128) # 0),
            !.Z  = Bit(byte = 0),
            !.PV = IF pv # 0 THEN 1 ELSE 0,
            !.H  = 1 ]

and(f, val) ==
    LET byte == And(val, 255)
        pv   == parity(byte)
    IN  [ f358_stub(f, byte) EXCEPT
            !.S  = Bit(And(byte, 128) # 0),
            !.Z  = Bit(byte = 0),
            !.PV = IF pv # 0 THEN 0 ELSE 1,
            !.H  = 1 ]

xor(f, val) == [ and(f, val) EXCEPT !.H = 0 ]

\* add16 with the half carry taken from the sum of bits 8..11 alone, without
\* the carry out of the low byte
add16HighNibbleOnly(f, wl, wr) ==
    LET byte == And(wl + wr, 65535)
        alu1 == Shr(And(wl, 3840) + And(wr, 3840), 8)
    IN  [ f EXCEPT
            !.F3 = Bit(And(byte, 2048) # 0),
            !.F5 = Bit(And(byte, 8192) # 0),
            !.C  = Bit(And(wl + wr, 65536) # 0),
            !.N  = 0,
            !.H  = Bit(And(alu1, 16) # 0) ]

add16(f, wl, wr) ==
    LET byte == And(wl + wr, 65535)
        alu0 == Shr(And(wl, 255) + And(wr, 255), 8)
        alu1 == Shr(And(wl, 3840) + And(wr, 3840), 8)
    IN  [ f EXCEPT
            !.F3 = Bit(And(byte, 2048) # 0),
            !.F5 = Bit(And(byte, 8192) # 0),
            !.C  = Bit(And(wl + wr, 65536) # 0),
            !.N  = 0,
            !.H  = Bit(And(alu0 + alu1, 16) # 0) ]

inc(f, val) ==
    LET byte == And(val, 255)
    IN  [ f358_stub(f, byte) EXCEPT
            !.S  = Bit(And(byte, 128) # 0),
            !.Z  = Bit(byte = 0),
            !.H  = IF And(byte, 15) # 0 THEN 0 ELSE 1,
            !.PV = Bit(byte = 128) ]

dec(f, val) ==
    LET byte == And(val, 255)
    IN  [ f358_stub(f, byte) EXCEPT
            !.S  = Bit(And(byte, 128) # 0),
            !.Z  = Bit(byte = 0),
            !.H  = Bit(And(byte, 15) = 15),
            !.PV = Bit(byte = 127),
            !.N  = 1 ]

rlca(f, val, lca) ==
    LET byte   == And(val, 255)
        result == And(lca, 255)
    IN  [ f358_stub(f, result) EXCEPT
            !.C = Bit(And(byte, 128) # 0), !.H = 0, !.N = 0 ]

rrca(f, val, rca) ==
    LET byte   == And(val, 255)
        result == And(rca, 255)
    IN  [ f358_stub(f, result) EXCEPT
            !.C = Bit(And(byte, 1) # 0), !.H = 0, !.N = 0 ]

cpl(f, val) ==
    LET byte == And(val, 255)
    IN  [ f358_stub(f, byte) EXCEPT !.N = 1, !.H = 1 ]

scf(f, a) == [ f358_stub(f, a) EXCEPT !.H = 0, !.C = 1, !.N = 0 ]

ccf(f, a) ==
    [ f358_stub(f, a) EXCEPT !.H = f.C, !.C = IF f.C # 0 THEN 0 ELSE 1, !.N = 0 ]

daa(f, val, adj) ==
    LET byte   == And(val, 255)
        result == And(adj, 255)
        c      == Bit(result = And(val + 102, 255) \/ result = And(val + 96, 255))
        h      == IF And(val, 15) > 9 \/ f.H # 0
                  THEN Bit(And(And(val, 15) + 6, 16) # 0)
                  ELSE f.H
    IN  [ f358_stub(f, result) EXCEPT
            !.S  = Bit(And(byte, 128) # 0),
            !.Z  = Bit(byte = 0),
            !.PV = IF parity(result) # 0 THEN 0 ELSE 1,
            !.C  = c,
            !.H  = h ]

-----------------------------------------------------------------------------
(* Decoder                                                                 *)

\* syntax.split("*").length - 1
Stars(syntax) == Cardinality({ i \in 1 .. Len(syntax) : syntax[i] = "*" })

\* the text of a template
RECURSIVE Join(_)
Join(syntax) == IF syntax = << >> THEN "" ELSE Head(syntax) \o Join(Tail(syntax))

\* String.replace(pattern, fmt) with a pattern of n placeholder characters:
\* the first occurrence only is replaced
Replace(syntax, n, fmt) ==
    LET hits == { i \in 1 .. (Len(syntax) - n + 1) :
                    \A k \in 0 .. (n - 1) : syntax[i + k] = "*" }
    IN  IF hits = {} THEN syntax
        ELSE LET i == CHOOSE j \in hits : \A k \in hits : j <= k
             IN  SubSeq(syntax, 1, i - 1) \o << fmt >> \o
                 SubSeq(syntax, i + n, Len(syntax))

\* DECODE_LUT[code] : undefined for a code outside the table
Template(code) ==
    IF code \in 0 .. (Len(DECODE_LUT) - 1) THEN DECODE_LUT[code + 1] ELSE << >>
HasTemplate(code) == code \in 0 .. (Len(DECODE_LUT) - 1)

\* new Buffer([code])
Buffer1(code) == << ToNumber32(code) % 256 >>

\* decode(address): the Instruction returned (syntax is undefined when
\* `defined` is FALSE) and the program counter after the call
decode(m, pc, address) ==
    LET code   == Index(m, And(address, 65535))
        tpl    == Template(code)
        bytes  == IF code # undefined /\ code <= 159 THEN 1 + Stars(tpl) ELSE 1
        first  == [ syntax |-> Join(tpl), bytes |-> Buffer1(code),
                    defined |-> HasTemplate(code) ]
    IN  IF bytes > 1
        THEN IF address + bytes > Len(m)
             THEN [ ins |-> [ first EXCEPT !.defined = TRUE, !.syntax = "??" ],
                    PC  |-> pc + bytes ]
             ELSE LET sub == slice(m, address, address + bytes)
                      fmt == IF bytes = 2
                             THEN format16(readUInt8(m, address + 1), 2) \o "h"
                             ELSE format16(readUInt16LE(m, address + 1), 4) \o "h"
                      txt == IF bytes = 2 THEN Join(Replace(tpl, 1, fmt))
                             ELSE IF bytes = 3 THEN Join(Replace(tpl, 2, fmt))
                             ELSE Join(tpl)
                  IN  [ ins |-> [ syntax |-> txt, bytes |-> sub, defined |-> TRUE ],
                        PC  |-> pc ]
        ELSE [ ins |-> first, PC |-> pc ]

-----------------------------------------------------------------------------
(* Executor                                                                *)

\* The outcome of an opcode's own logic: the memory, register file and run-time
\* properties it leaves, its T-state cost, and whether a Buffer read threw.
Done(m, r, d, cyc) == [ threw |-> FALSE, mem |-> m, rf |-> r, dyn |-> d, cycles |-> cyc ]
\* Every read that can throw precedes the opcode's first write
Throw(m, r, d)     == [ threw |-> TRUE,  mem |-> m, rf |-> r, dyn |-> d, cycles |-> 0 ]

\* r8_stub(z)
r8_ok(m, r, z)   == Enum(RF_LUT, z) = "_HL_" => InRange8(m, r.HL)
r8_stub(m, r, z) ==
    IF Enum(RF_LUT, z) = "_HL_" THEN readUInt8(m, r.HL) ELSE r[Enum(RF_LUT, z)]

\* LD (BC,DE,HL,SP), **
LdPairImm(m, r, d, p) ==
    IF ~InRange16(m, r.PC) THEN Throw(m, r, d)
    ELSE LET word == readUInt16LE(m, r.PC)
         IN  Done(m, [ r EXCEPT ![Enum(RF_PAIR_LUT, p)] = word, !.PC = @ + 2 ], d, 10)

\* INC / DEC (BC,DE,HL,SP)
IncDecPair(m, r, d, p, q) ==
    LET byte == IF q # 0 THEN -1 ELSE 1
    IN  Done(m, [ r EXCEPT ![Enum(RF_PAIR_LUT, p)] = @ + byte ], d, 6)

\* INC / DEC of a register or of (HL)
IncDec8(m, r, d, y, z) ==
    LET skew  == IF z = 4 THEN 1 ELSE -1
        index == Enum(RF_LUT, y)
        isHL  == index = "_HL_"
    IN  IF isHL /\ ~InRange8(m, r.HL) THEN Throw(m, r, d)
        ELSE LET byte == IF isHL THEN And(readUInt8(m, r.HL) + skew, 255)
                         ELSE And(r[index] + skew, 255)
                 m1   == IF isHL THEN Store(m, r.HL, byte) ELSE m
                 r1   == IF isHL THEN r ELSE [ r EXCEPT ![index] = byte ]
                 f1   == IF z = 4 THEN inc(r1.flags, byte) ELSE dec(r1.flags, byte)
             IN  Done(m1, [ r1 EXCEPT !.flags = f1 ], d, IF isHL THEN 11 ELSE 4)

\* LD r, *  and the move matrix LD r, r'
Ld8(m, r, d, x, y, z) ==
    LET index == Enum(RF_LUT, y)
        isHL  == index = "_HL_"
    IN  IF (x = 0 /\ ~InRange8(m, r.PC)) \/ (x # 0 /\ ~r8_ok(m, r, z))
        THEN Throw(m, r, d)
        ELSE LET byte  == IF x = 0 THEN readUInt8(m, r.PC) ELSE r8_stub(m, r, z)
                 local == IF isHL THEN (IF x # 0 THEN 7 ELSE 10)
                          ELSE (IF x # 0 THEN 4 ELSE 7)
                 m1    == IF isHL THEN Store(m, r.HL, byte) ELSE m
                 r1    == IF isHL THEN r ELSE [ r EXCEPT ![index] = byte ]
             IN  Done(m1, [ r1 EXCEPT !.PC = IF x = 0 THEN @ + 1 ELSE @ ], d, local)

Rlca(m, r, d) ==
    LET byte == r.A
        a1   == rot8L(r.A)
    IN  Done(m, [ r EXCEPT !.A = a1, !.flags = rlca(r.flags, byte, a1) ], d, 4)

Rrca(m, r, d) ==
    LET byte == r.A
        a1   == rot8R(byte)
    IN  Done(m, [ r EXCEPT !.A = a1, !.flags = rrca(r.flags, byte, a1) ], d, 4)

\* RLA that rotates bit 7 into bit 0 (as RLCA does) instead of the carry
RlaCircular(m, r, d) ==
    LET byte == r.A
        a1   == rot8L(byte)
    IN  Done(m, [ r EXCEPT !.A = a1, !.flags = rlca(r.flags, byte, a1) ], d, 4)

Rla(m, r, d) ==
    LET byte == r.A
        a0   == rot8L(And(byte, 127))
        a1   == IF r.flags.C # 0 THEN Or(a0, 1) ELSE a0
    IN  Done(m, [ r EXCEPT !.A = a1, !.flags = rlca(r.flags, byte, a1) ], d, 4)

Rra(m, r, d) ==
    LET byte == r.A
        a0   == rot8R(And(byte, 254))
        a1   == IF r.flags.C # 0 THEN Or(a0, 128) ELSE a0
    IN  Done(m, [ r EXCEPT !.A = a1, !.flags = rrca(r.flags, byte, a1) ], d, 4)

\* EX AF, AF'
ExAf(m, r, d) == Done(m, [ r EXCEPT !.AF = r._AF, !._AF = r.AF ], d, 4)

\* ADD HL, (BC,DE,HL,SP)
AddHl(m, r, d, p) ==
    LET word == r[Enum(RF_PAIR_LUT, p)]
    IN  Done(m, [ r EXCEPT !.flags = add16(r.flags, r.HL, word), !.HL = r.HL + word ],
             d, 11)

\* DJNZ *
\* DJNZ that tests B before the decrement instead of after it
DjnzTestsOldB(m, r, d) ==
    IF ~InRange8(m, r.PC) THEN Throw(m, r, d)
    ELSE LET byte == readUInt8(m, r.PC)
             r1   == [ r EXCEPT !.B = @ - 1, !.PC = @ + 1 ]
         IN  IF r.B = 0 THEN Done(m, r1, d, 8)
             ELSE Done(m, [ r1 EXCEPT !.PC = j8_stub(r1.PC, byte) ], d, 13)

Djnz(m, r, d) ==
    IF ~InRange8(m, r.PC) THEN Throw(m, r, d)
    ELSE LET byte == readUInt8(m, r.PC)
             r1   == [ r EXCEPT !.B = @ - 1, !.PC = @ + 1 ]
         IN  IF r1.B = 0 THEN Done(m, r1, d, 8)
             ELSE Done(m, [ r1 EXCEPT !.PC = j8_stub(r1.PC, byte) ], d, 13)

\* JR *
Jr(m, r, d) ==
    IF ~InRange8(m, r.PC) THEN Throw(m, r, d)
    ELSE LET byte == readUInt8(m, r.PC)
         IN  Done(m, [ r EXCEPT !.PC = j8_stub(r.PC + 1, byte) ], d, 12)

\* JR NZ/Z/NC/C, *
JrCc(m, r, d, y) ==
    IF ~InRange8(m, r.PC) THEN Throw(m, r, d)
    ELSE LET byte  == readUInt8(m, r.PC)
             index == IF (y - 4) <= 2 THEN "Z" ELSE "C"
             bool  == IF (y - 4) % 2 = 1 THEN 1 ELSE 0
             r1    == [ r EXCEPT !.PC = @ + 1 ]
         IN  IF r1.flags[index] = bool
             THEN Done(m, [ r1 EXCEPT !.PC = j8_stub(r1.PC, byte) ], d, 12)
             ELSE Done(m, r1, d, 7)

\* LD (**), HL
\* LD (nn),HL that advances PC by 3 past the opcode instead of 2
StHlAdvancesThree(m, r, d) ==
    IF ~InRange16(m, r.PC) THEN Throw(m, r, d)
    ELSE LET word == readUInt16LE(m, r.PC)
             m1   == Store(Store(m, word, r.L), word + 1, r.H)
         IN  Done(m1, [ r EXCEPT !.PC = @ + 3 ], d, 16)

StHl(m, r, d) ==
    IF ~InRange16(m, r.PC) THEN Throw(m, r, d)
    ELSE LET word == readUInt16LE(m, r.PC)
             m1   == Store(Store(m, word, r.L), word + 1, r.H)
         IN  Done(m1, [ r EXCEPT !.PC = @ + 2 ], d, 16)

\* DAA correcting the low digit only
DaaLowDigit(m, r, d) ==
    LET f  == r.flags
        b0 == r.A
        b1 == IF And(b0, 15) > 9 \/ f.H # 0 THEN b0 + 6 ELSE b0
    IN  Done(m, [ r EXCEPT !.flags = daa(f, r.A, b1), !.A = b1 ], d, 4)

\* DAA
Daa(m, r, d) ==
    LET f  == r.flags
        b0 == r.A
        b1 == IF And(b0, 15) > 9 \/ f.H # 0 THEN b0 + 6 ELSE b0
        b2 == IF Shr(b1, 4) > 9 \/ f.C # 0
              THEN LET bcd == Shr(And(b1, 240), 4) + 6
                   IN  Or(And(b1, 15), Shl(And(bcd, 15), 4))
              ELSE b1
    IN  Done(m, [ r EXCEPT !.flags = daa(f, r.A, b2), !.A = b2 ], d, 4)

\* LD HL, (**) : the word read is stored in the property of rf named by the
\* value of HL, not in HL
LdHl(m, r, d) ==
    IF ~InRange16(m, r.PC) THEN Throw(m, r, d)
    ELSE LET word == readUInt16LE(m, r.PC)
         IN  IF ~InRange16(m, word) THEN Throw(m, r, d)
             ELSE LET v  == readUInt16LE(m, word)
                      d1 == [ k \in (DOMAIN d) \cup { r.HL } |->
                                IF k = r.HL THEN v ELSE d[k] ]
                  IN  Done(m, [ r EXCEPT !.PC = @ + 2 ], d1, 16)

\* CPL
Cpl(m, r, d) ==
    LET a1 == And(Not(r.A), 255)
    IN  Done(m, [ r EXCEPT !.A = a1, !.flags = cpl(r.flags, a1) ], d, 4)

\* LD (**), A
StA(m, r, d) ==
    IF ~InRange16(m, r.PC) THEN Throw(m, r, d)
    ELSE LET word == readUInt16LE(m, r.PC)
         IN  Done(Store(m, word, r.A), [ r EXCEPT !.PC = @ + 2 ], d, 13)

\* LD A, (**)
LdA(m, r, d) ==
    IF ~InRange16(m, r.PC) THEN Throw(m, r, d)
    ELSE LET word == readUInt16LE(m, r.PC)
         IN  IF ~InRange8(m, word) THEN Throw(m, r, d)
             ELSE Done(m, [ r EXCEPT !.A = readUInt8(m, word), !.PC = @ + 2 ], d, 16)

\* the 8-bit ALU group 0x80 - 0xBF; it adds nothing to the T-state count
Alu(m, r, d, y, z) ==
    IF ~r8_ok(m, r, z) THEN Throw(m, r, d)
    ELSE LET byte0 == r8_stub(m, r, z)
             a     == r.A
             f     == r.flags
             op    == Enum(ALU_LUT, y)
             byte  == IF op \in { "ADC_A", "SBC_A" } THEN byte0 + f.C ELSE byte0
             p8    == CASE op \in { "ADC_A", "ADD_A" } -> a + byte
                        [] op \in { "SBC_A", "SUB_A" } -> a - byte
                        [] op = "AND" -> And(a, byte)
                        [] op = "XOR" -> Xor(a, byte)
                        [] op = "OR"  -> Or(a, byte)
                        [] OTHER      -> 0
             f1    == CASE op \in { "ADC_A", "ADD_A" } -> add8(f, a, byte)
                        [] op \in { "SBC_A", "SUB_A", "CP" } -> sub8(f, a, byte)
                        [] op = "AND" -> and(f, p8)
                        [] OTHER      -> xor(f, p8)
             a1    == IF p8 # 0 THEN And(p8, 255) ELSE a
         IN  Done(m, [ r EXCEPT !.flags = f1, !.A = a1 ], d, 0)

\* the switch of step(): opcode is the byte fetched (or undefined), r the
\* register file after the fetch
Dispatch(m, r, d, opcode) ==
    LET z == And(opcode, 7)
        y == Shr(And(opcode, 56), 3)
        x == Shr(And(opcode, 192), 6)
        p == Shr(And(opcode, 48), 4)
        q == Shr(And(opcode, 8), 3)
    IN  CASE opcode = 0 -> Done(m, r, d, 4)
          [] opcode \in { 1, 17, 33, 49 } -> LdPairImm(m, r, d, p)
          [] opcode = 2 -> Done(Store(m, r.BC, r.A), r, d, 7)
          [] opcode \in { 3, 19, 35, 51, 11, 27, 43, 59 } -> IncDecPair(m, r, d, p, q)
          [] opcode \in { 4, 12, 20, 28, 36, 44, 52, 60,
                          5, 13, 21, 29, 37, 45, 53, 61 } -> IncDec8(m, r, d, y, z)
          [] opcode \in { 6, 14, 22, 30, 38, 46, 54, 62 }
               \/ (opcode >= 64 /\ opcode <= 117)
               \/ (opcode >= 119 /\ opcode <= 127) -> Ld8(m, r, d, x, y, z)
          [] opcode = 7  -> Rlca(m, r, d)
          [] opcode = 8  -> ExAf(m, r, d)
          [] opcode \in { 9, 25, 41, 57 } -> AddHl(m, r, d, p)
          [] opcode = 10 -> Done(m, [ r EXCEPT !.A = Index(m, r.BC) ], d, 7)
          [] opcode = 15 -> Rrca(m, r, d)
          [] opcode = 16 -> Djnz(m, r, d)
          [] opcode = 18 -> Done(Store(m, r.DE, r.A), r, d, 7)
          [] opcode = 23 -> Rla(m, r, d)
          [] opcode = 24 -> Jr(m, r, d)
          [] opcode = 26 -> Done(m, [ r EXCEPT !.A = Index(m, r.DE) ], d, 7)
          [] opcode = 31 -> Rra(m, r, d)
          [] opcode \in { 32, 40, 48, 56 } -> JrCc(m, r, d, y)
          [] opcode = 34 -> StHl(m, r, d)
          [] opcode = 39 -> Daa(m, r, d)
          [] opcode = 42 -> LdHl(m, r, d)
          [] opcode = 47 -> Cpl(m, r, d)
          [] opcode = 50 -> StA(m, r, d)
          [] opcode = 55 -> Done(m, [ r EXCEPT !.flags = scf(r.flags, r.A) ], d, 4)
          [] opcode = 58 -> LdA(m, r, d)
          [] opcode = 63 -> Done(m, [ r EXCEPT !.flags = ccf(r.flags, r.A) ], d, 4)
          [] opcode = 118 -> Done(m, r, d, 0)
          [] opcode >= 128 /\ opcode <= 191 -> Alu(m, r, d, y, z)
          [] OTHER -> Done(m, r, d, 0)

\* this.cycles += cycles : a field never assigned is undefined, and
\* undefined + n is NaN, as is NaN + n
Number(n)  == [ n |-> n, type |-> "number" ]
NaN        == [ n |-> 0, type |-> "NaN" ]
Unassigned == [ n |-> 0, type |-> "undefined" ]
AddCycles(total, n) == IF total.type = "number" THEN Number(total.n + n) ELSE NaN

\* step(): fetch, dispatch and, unless a read threw, the epilogue
step(m, r, d, total) ==
    LET opcode == Index(m, r.PC)
        Epilogue(out) ==
            IF out.threw
            THEN [ threw |-> TRUE, opcode |-> opcode, mem |-> out.mem, rf |-> out.rf,
                   dyn |-> out.dyn, cycles |-> total ]
            ELSE [ threw |-> FALSE, opcode |-> opcode, mem |-> out.mem,
                   rf  |-> [ map(out.rf, opcode) EXCEPT !.R = And(@ + 1, 127) ],
                   dyn |-> out.dyn, cycles |-> AddCycles(total, out.cycles) ]
    IN  With(Dispatch(m, [ r EXCEPT !.PC = @ + 1 ], d, opcode), Epilogue)

-----------------------------------------------------------------------------
(* Bounds of the exploration                                               *)

MaxMem   == 3      \* longest memory image, in bytes
MaxSteps == 4      \* step() calls per run
MaxDecodes == 2    \* decode() calls per run

\* A memory image is any opcode byte followed by up to MaxMem - 1 copies of a
\* fill byte.  The fill bytes serve as operands (0x00; 0x02, which as an
\* address lies outside the image; 0x80 = -128; 0xFE = -2) and as the opcodes
\* that follow (NOP, LD (BC),A, HALT, ADD A,B, and 0xFE, outside the table).
Fill == { 0, 2, 118, 128, 254 }

Images ==
    { << op >> : op \in 0 .. 255 }
    \cup { << op >> \o [ i \in 1 .. n |-> b ] :
             op \in 0 .. 255, b \in Fill, n \in 1 .. (MaxMem - 1) }

-----------------------------------------------------------------------------
(* The engine and its public operations                                    *)

NoInstruction == [ syntax |-> "", bytes |-> << >>, defined |-> FALSE ]

\* constructor(rom): this.mem = rom; reset().  this.cycles is never assigned.
Init ==
    /\ mem \in Images
    /\ rf = reset
    /\ cycles = Unassigned
    /\ dyn = << >>
    /\ call = [ opcode |-> undefined, address |-> 0, threw |-> FALSE,
                fn |-> "constructor" ]
    /\ ins = NoInstruction
    /\ nsteps = 0
    /\ ncalls = 0
    /\ halted = FALSE

\* a call of step(); call.address is the PC the opcode was fetched at
Step ==
    /\ nsteps < MaxSteps
    /\ \E out \in { step(mem, rf, dyn, cycles) } :
           /\ mem' = out.mem
           /\ rf' = out.rf
           /\ dyn' = out.dyn
           /\ cycles' = out.cycles
           /\ call' = [ opcode |-> out.opcode, address |-> rf.PC,
                        threw |-> out.threw, fn |-> "step" ]
           /\ halted' = (halted \/ out.opcode = 118)
    /\ ins' = NoInstruction
    /\ nsteps' = nsteps + 1
    /\ UNCHANGED ncalls

\* a call of decode(address), for display
Decode(address) ==
    /\ ncalls < MaxDecodes
    /\ \E out \in { decode(mem, rf.PC, address) } :
           /\ rf' = [ rf EXCEPT !.PC = out.PC ]
           /\ ins' = out.ins
    /\ call' = [ opcode |-> Index(mem, And(address, 65535)), address |-> address,
                 threw |-> FALSE, fn |-> "decode" ]
    /\ ncalls' = ncalls + 1
    /\ UNCHANGED << mem, cycles, dyn, nsteps, halted >>

Next == Step \/ \E address \in 0 .. Len(mem) : Decode(address)

Spec == Init /\ [][Next]_vars

-----------------------------------------------------------------------------
(* Runs of step() over assembled programs                                  *)

\* Encodings of the opcodes the programs are assembled from (y, z, p as in
\* the bit fields of step())
LD_r_n(y, n)   == << 6 + 8 * y, n >>
LD_rr_nn(p, lo, hi) == << 1 + 16 * p, lo, hi >>
INC_r(y)       == << 4 + 8 * y >>
ALU_r(y, z)    == << 128 + 8 * y + z >>

\* Operand values: the ends of the byte range, the nibble and sign boundaries
TestBytes == { 0, 1, 15, 16, 127, 128, 255 }

\* ... and the bytes of 0x1234
SyncBytes == TestBytes \cup { 18, 52 }

\* Accumulator and operand values for the 8-bit ALU group: both ends of the
\* byte range and both sides of every nibble, sign and carry boundary
AluBytes == { 0, 1, 2, 14, 15, 16, 17, 112, 126, 127, 128, 129, 143, 240, 254, 255 }

\* Instruction sequences that leave each combination of Z, C and N behind,
\* starting from the flags reset() leaves (all clear): nothing, SCF, CPL,
\* XOR A, SCF then XOR A
FlagSetters == { << >>, << 55 >>, << 47 >>, << 175 >>, << 55, 175 >> }

\* the registers of RF_LUT other than (HL)
RegIndex == { 0, 1, 2, 3, 4, 5, 7 }

\* flag setter; LD r,v; INC r   and   flag setter; LD HL,nn; INC (HL) with the
\* byte v stored at nn, right after the program
IncPrograms ==
    { pre \o LD_r_n(y, v) \o INC_r(y) :
        pre \in FlagSetters, y \in RegIndex, v \in TestBytes }
    \cup { pre \o LD_rr_nn(2, Len(pre) + 4, 0) \o INC_r(6) \o << v >> :
             pre \in FlagSetters, v \in TestBytes }

\* AND / XOR / OR (y = 4, 5, 6) of A with a register, with A itself and with
\* (HL), after CPL (which sets H and N) or not; and as the first instruction
\* after reset
LogicPrograms ==
    { pre \o LD_r_n(7, a) \o LD_r_n(z, b) \o ALU_r(y, z) :
        pre \in { << >>, << 47 >> }, y \in { 4, 5, 6 }, z \in RegIndex \ { 7 },
        a \in TestBytes, b \in TestBytes }
    \cup { pre \o LD_r_n(7, a) \o ALU_r(y, 7) :
             pre \in { << >>, << 47 >> }, y \in { 4, 5, 6 }, a \in TestBytes }
    \cup { LD_rr_nn(2, 6, 0) \o LD_r_n(7, a) \o ALU_r(y, 6) \o << b >> :
             y \in { 4, 5, 6 }, a \in TestBytes, b \in TestBytes }
    \cup { ALU_r(y, z) : y \in { 4, 5, 6 }, z \in RegIndex }

\* LD rr,nn for each pair, as the first instruction after reset and after a
\* NOP, an 8-bit load, an INC of a pair or an ADD HL,BC
LoadPrograms ==
    { pre \o LD_rr_nn(p, lo, hi) :
        pre \in { << >>, << 0 >>, << 6, 18 >>, << 35 >>, << 9 >> },
        p \in 0 .. 3, lo \in SyncBytes, hi \in SyncBytes }

\* JR e for every displacement byte, at address 0 and after a NOP; JR cc for
\* each condition under each combination of Z and C
JumpPrograms ==
    { pre \o << 24, e >> : pre \in { << >>, << 0 >> }, e \in 0 .. 255 }
    \cup { pre \o << op, e >> :
             pre \in { << >>, << 55 >>, << 175 >>, << 55, 175 >> },
             op \in { 32, 40, 48, 56 }, e \in { 0, 2, 127, 128, 254 } }

\* EX AF,AF' as the first instruction after reset, after a flag setter, after
\* a load of A, twice in a row, and around an SCF (NOP; EX; SCF; EX)
ExPrograms ==
    { pre \o << 8 >> : pre \in FlagSetters \cup { << 0 >> } }
    \cup { LD_r_n(7, a) \o << 8 >> \o post :
             a \in TestBytes, post \in { << >>, << 8 >>, << 55, 8 >> } }
    \cup { << 0, 8, 55, 8 >> }

\* LD HL,(nn) of the word lo, hi stored right after the program, as the first
\* instruction and after LD HL,nn; LD (nn),HL; INC HL
LdHlPrograms ==
    { << 42, 3, 0, lo, hi >> : lo \in SyncBytes, hi \in SyncBytes }
    \cup { LD_rr_nn(2, lo, hi) \o << 34, 10, 0 >> \o << 35 >> \o << 42, 10, 0 >>
             \o << 0, 0 >> : lo \in SyncBytes, hi \in SyncBytes }

\* INC rr / DEC rr (q = 0 / 1) of each pair, as the first instruction after
\* reset and after LD rr,nn or LD HL,nn
PairStepPrograms ==
    { << 3 + 16 * p + 8 * q >> : p \in 0 .. 3, q \in 0 .. 1 }
    \cup { LD_rr_nn(p0, lo, hi) \o << 3 + 16 * p + 8 * q >> :
             p0 \in 0 .. 3, p \in 0 .. 3, q \in 0 .. 1,
             lo \in { 0, 1, 255 }, hi \in { 0, 1, 255 } }

\* 16-bit operand values: both ends of the range and both sides of the
\* carries out of bits 7, 11 and 15
TestWords == { 0, 1, 255, 256, 2047, 2048, 4095, 4096, 32767, 32768,
               61441, 65280, 65535 }

\* the instruction LD rr,nn for the 16-bit value w
LD_rr_w(p, w) == LD_rr_nn(p, w % 256, w \div 256)

\* [XOR A;] LD HL,v; LD rr,w; ADD HL,rr for BC, DE and SP, and
\* [XOR A;] LD HL,v; ADD HL,HL; and ADD HL,rr as the first instruction
AddHlPrograms ==
    { pre \o LD_rr_w(2, v) \o LD_rr_w(p, w) \o << 9 + 16 * p >> :
        pre \in { << >>, << 175 >> }, p \in { 0, 1, 3 },
        v \in TestWords, w \in TestWords }
    \cup { pre \o LD_rr_w(2, v) \o << 41 >> :
             pre \in { << >>, << 175 >> }, v \in TestWords }
    \cup { << 9 + 16 * p >> : p \in 0 .. 3 }

\* RLCA, RRCA, RLA, RRA (0x07, 0x0F, 0x17, 0x1F) on every accumulator value
\* with the carry clear or set; on AluBytes after XOR A; SCF (Z, PV and C
\* set) and after OR A (S and PV set); and RLA; RRA on every accumulator
\* value with the carry clear or set
RotatePrograms ==
    { pre \o LD_r_n(7, a) \o << op >> :
        pre \in { << >>, << 55 >> }, a \in 0 .. 255, op \in { 7, 15, 23, 31 } }
    \cup { pre \o LD_r_n(7, a) \o << op >> :
             pre \in { << 175, 55 >>, << 183 >> }, a \in AluBytes,
             op \in { 7, 15, 23, 31 } }
    \cup { pre \o LD_r_n(7, a) \o << 23, 31 >> :
             pre \in { << >>, << 55 >> }, a \in 0 .. 255 }

Programs ==
    IncPrograms \cup LogicPrograms \cup LoadPrograms \cup JumpPrograms
    \cup ExPrograms \cup LdHlPrograms \cup PairStepPrograms
    \cup AddHlPrograms \cup RotatePrograms

\* the state the constructor leaves, whatever the image
Constructed ==
    /\ rf = reset
    /\ cycles = Unassigned
    /\ dyn = << >>
    /\ call = [ opcode |-> undefined, address |-> 0, threw |-> FALSE,
                fn |-> "constructor" ]
    /\ ins = NoInstruction
    /\ nsteps = 0
    /\ ncalls = 0
    /\ halted = FALSE

InitRun == mem \in Programs /\ Constructed

SpecRun == InitRun /\ [][Step]_vars

\* Packed BCD: one decimal digit per nibble
BcdBytes == { 16 * h + l : h \in 0 .. 9, l \in 0 .. 9 }

\* LD A,a; LD B,b; ADD A,B; DAA   and   LD A,a; ADD A,A; DAA
BcdAddB(a, b) == LD_r_n(7, a) \o LD_r_n(0, b) \o ALU_r(0, 0) \o << 39 >>
BcdAddA(a)    == LD_r_n(7, a) \o ALU_r(0, 7) \o << 39 >>

\* ... and DAA on an accumulator that no addition produced: LD A,0xF0; CPL;
\* DAA (A = 0x0F with H set) and LD A,0x9A; DAA (C and H clear)
BcdPrograms ==
    { BcdAddB(a, b) : a \in BcdBytes, b \in BcdBytes }
    \cup { BcdAddA(a) : a \in BcdBytes }
    \cup { << 62, 240, 47, 39 >>, << 62, 154, 39 >> }

InitBcd == mem \in BcdPrograms /\ Constructed

SpecBcd == InitBcd /\ [][Step]_vars

\* [SCF;] LD A,a; LD B,b; <op> A,B   and   [SCF;] LD A,a; <op> A,A   for the
\* eight operations of ALU_LUT (y), with the carry clear or set
AluPrograms ==
    { pre \o LD_r_n(7, a) \o LD_r_n(0, b) \o ALU_r(y, 0) :
        pre \in { << >>, << 55 >> }, y \in 0 .. 7,
        a \in AluBytes, b \in AluBytes }
    \cup { pre \o LD_r_n(7, a) \o ALU_r(y, 7) :
             pre \in { << >>, << 55 >> }, y \in 0 .. 7, a \in AluBytes }

InitAlu == mem \in AluPrograms /\ Constructed

SpecAlu == InitAlu /\ [][Step]_vars

-----------------------------------------------------------------------------
(* The harness of main.ts: seed HL and BC, then decode and step while the  *)
(* program counter is inside the image                                      *)

MaxLoopSteps == 260    \* iterations of the harness loop per run

\* the register file after z80.rf.HL = 0xFE00; z80.rf.BC = 0x00FF
Seeded == [ reset EXCEPT !.HL = 65024, !.BC = 255 ]

\* LD B,n; DJNZ e: the loop onto itself (e = 0xFE) for every n, and other
\* displacements for a few n
DjnzPrograms ==
    { LD_r_n(0, n) \o << 16, 254 >> : n \in 0 .. 255 }
    \cup { LD_r_n(0, n) \o << 16, e >> \o << 0, 0 >> :
             n \in { 0, 1, 2, 255 }, e \in { 0, 2, 127, 128 } }

\* every opcode with the operand word 0x0008 (an address inside the image, a
\* small displacement), followed by NOPs: as the first instruction, after
\* LD HL,0x0008, and the branch opcodes after each flag setter
OpcodePrograms ==
    { pre \o << op, 8, 0 >> \o << 0, 0, 0, 0, 0, 0, 0 >> :
        pre \in { << >>, LD_rr_nn(2, 8, 0) }, op \in 0 .. 255 }
    \cup { pre \o << op, 8, 0 >> \o << 0, 0, 0, 0, 0, 0, 0 >> :
             pre \in FlagSetters \cup { LD_r_n(0, 1), LD_r_n(0, 2) },
             op \in { 16, 24, 32, 40, 48, 56 } }

\* programs whose second instruction observes HL or BC: NOP, LD A,n, SCF or
\* INC DE first, then INC HL or INC BC
SeedPrograms ==
    { first \o second :
        first \in { << 0 >>, LD_r_n(7, 5), << 55 >>, << 19 >> },
        second \in { << >>, << 35 >>, << 3 >> } }

MainPrograms == DjnzPrograms \cup OpcodePrograms \cup SeedPrograms

InitMain ==
    /\ mem \in MainPrograms
    /\ rf = Seeded
    /\ cycles = Unassigned
    /\ dyn = << >>
    /\ call = [ opcode |-> undefined, address |-> 0, threw |-> FALSE,
                fn |-> "constructor" ]
    /\ ins = NoInstruction
    /\ nsteps = 0
    /\ ncalls = 0
    /\ halted = FALSE

\* one iteration of the loop: dasm = z80.decode(z80.rf.PC); z80.step().  An
\* exception thrown by step() ends the process.
MainLoop ==
    /\ nsteps < MaxLoopSteps
    /\ ~call.threw
    /\ rf.PC < Len(mem)
    /\ \E dasm \in { decode(mem, rf.PC, rf.PC) } :
         \E out \in { step(mem, [ rf EXCEPT !.PC = dasm.PC ], dyn, cycles) } :
           /\ ins' = dasm.ins
           /\ mem' = out.mem
           /\ rf' = out.rf
           /\ dyn' = out.dyn
           /\ cycles' = out.cycles
           /\ call' = [ opcode |-> out.opcode, address |-> dasm.PC,
                        threw |-> out.threw, fn |-> "step" ]
           /\ halted' = (halted \/ out.opcode = 118)
    /\ nsteps' = nsteps + 1
    /\ ncalls' = ncalls + 1

SpecMain == InitMain /\ [][MainLoop]_vars

-----------------------------------------------------------------------------
(* Direct calls of the public methods of class Z80                         *)

\* A call of a helper: the value the caller started from, how many calls it
\* has chained, this call's arguments and what it returned
HelperCall(fn, seed, count, args, ret) ==
    [ opcode |-> undefined, address |-> 0, threw |-> FALSE, fn |-> fn,
      seed |-> seed, count |-> count, args |-> args, ret |-> ret ]

MaxHelperCalls == 1    \* direct calls of a helper, with arguments the caller chooses, per run
MaxRotations   == 8    \* how often a caller feeds rot8L its own result

\* argument bytes for the flag helpers
HelperBytes == TestBytes

\* a direct call that leaves the object as it is
PureCall(record) ==
    /\ ncalls < MaxHelperCalls
    /\ call' = record
    /\ ncalls' = ncalls + 1
    /\ UNCHANGED << mem, rf, cycles, dyn, ins, nsteps, halted >>

\* a direct call that writes this.rf: the declared registers become r and the
\* properties created at run time become d
RfCall(fn, args, r, d) ==
    /\ ncalls < MaxHelperCalls
    /\ rf' = r
    /\ dyn' = d
    /\ call' = HelperCall(fn, undefined, 1, args, undefined)
    /\ ncalls' = ncalls + 1
    /\ UNCHANGED << mem, cycles, ins, nsteps, halted >>

\* a direct call that writes this.rf.flags (the flags become f)
FlagCall(fn, args, f) == RfCall(fn, args, [ rf EXCEPT !.flags = f ], dyn)

\* parity(v)
Parity ==
    \E v \in 0 .. 255 : PureCall(HelperCall("parity", v, 1, << v >>, parity(v)))

\* rot8L(v), and v = rot8L(v) up to MaxRotations times in succession
Rot8L ==
    \/ \E v \in 0 .. 255 : PureCall(HelperCall("rot8L", v, 1, << v >>, rot8L(v)))
    \/ /\ call.fn = "rot8L"
       /\ call.count < MaxRotations
       /\ call' = HelperCall("rot8L", call.seed, call.count + 1,
                             << call.ret >>, rot8L(call.ret))
       /\ ncalls' = ncalls + 1
       /\ UNCHANGED << mem, rf, cycles, dyn, ins, nsteps, halted >>

\* rot8R(v)
Rot8R ==
    \E v \in 0 .. 255 : PureCall(HelperCall("rot8R", v, 1, << v >>, rot8R(v)))

SyncPairs == << [ hi |-> "B", lo |-> "C", pair |-> "BC" ],
                [ hi |-> "D", lo |-> "E", pair |-> "DE" ],
                [ hi |-> "H", lo |-> "L", pair |-> "HL" ] >>

\* NOP, LD BC,**, LD B,*, INC BC, ADD A,B, and one opcode outside the table
SyncOpcodes == { 0, 1, 6, 3, 128, 237 }

\* rf.<pair> = 256*hi + lo; map(opcode)   and
\* rf.<hi> = hi; rf.<lo> = lo; map(opcode)
Sync ==
    /\ ncalls < MaxHelperCalls
    /\ \E i \in 1 .. Len(SyncPairs), hi \in SyncBytes, lo \in SyncBytes,
          opcode \in SyncOpcodes, kind \in { "pair", "halves" } :
          LET p  == SyncPairs[i]
              r0 == IF kind = "pair"
                    THEN [ rf EXCEPT ![p.pair] = 256 * hi + lo ]
                    ELSE [ rf EXCEPT ![p.hi] = hi, ![p.lo] = lo ]
          IN  /\ rf' = map(r0, opcode)
              /\ call' = HelperCall("map", [ hi |-> hi, lo |-> lo, reg |-> p,
                                             kind |-> kind ],
                                    1, << opcode >>, undefined)
    /\ ncalls' = ncalls + 1
    /\ UNCHANGED << mem, cycles, dyn, ins, nsteps, halted >>

\* reset(): every property of rf 0xFFFF, those created at run time included,
\* both flag sets clear, PC = 0, R = 0; this.cycles and this.mem are not
\* touched
Reset == RfCall("reset", << >>, reset, resetProperties(dyn))

\* clamp()
Clamp == RfCall("clamp", << >>, clamp(rf), dyn)

\* j8_stub(byte)
J8Stub ==
    \E byte \in HelperBytes :
        RfCall("j8_stub", << byte >>, [ rf EXCEPT !.PC = j8_stub(rf.PC, byte) ],
               dyn)

\* f358_stub(byte)
F358Stub ==
    \E byte \in HelperBytes :
        FlagCall("f358_stub", << byte >>, f358_stub(rf.flags, byte))

\* add8(bl, br), sub8(bl, br)
Add8 ==
    \E bl \in HelperBytes, br \in HelperBytes :
        \/ FlagCall("add8", << bl, br >>, add8(rf.flags, bl, br))
        \/ FlagCall("sub8", << bl, br >>, sub8(rf.flags, bl, br))

\* and(val), xor(val)
Logic ==
    \E val \in HelperBytes :
        \/ FlagCall("and", << val >>, and(rf.flags, val))
        \/ FlagCall("xor", << val >>, xor(rf.flags, val))

\* add16(wl, wr)
Add16 ==
    \E wl \in TestWords, wr \in TestWords :
        FlagCall("add16", << wl, wr >>, add16(rf.flags, wl, wr))

\* inc(val), dec(val)
IncDec ==
    \E val \in HelperBytes :
        \/ FlagCall("inc", << val >>, inc(rf.flags, val))
        \/ FlagCall("dec", << val >>, dec(rf.flags, val))

\* rlca(val, lca), rrca(val, rca)
Rotated ==
    \E val \in HelperBytes, res \in HelperBytes :
        \/ FlagCall("rlca", << val, res >>, rlca(rf.flags, val, res))
        \/ FlagCall("rrca", << val, res >>, rrca(rf.flags, val, res))

\* cpl(val)
CplFlags ==
    \E val \in HelperBytes : FlagCall("cpl", << val >>, cpl(rf.flags, val))

\* scf(), ccf(): F3 and F5 from this.rf.A
CarryFlag ==
    \/ FlagCall("scf", << >>, scf(rf.flags, rf.A))
    \/ FlagCall("ccf", << >>, ccf(rf.flags, rf.A))

\* daa(val, daa)
DaaFlags ==
    \E val \in HelperBytes, res \in HelperBytes :
        FlagCall("daa", << val, res >>, daa(rf.flags, val, res))

\* format16(reg, pad)
Format16 ==
    \E reg \in TestWords, pad \in { 2, 4 } :
        PureCall(HelperCall("format16", reg, 1, << reg, pad >>,
                            format16(reg, pad)))

\* r8_stub(z): the register RF_LUT[z], or the byte at HL for z = 6, where
\* readUInt8 throws when HL is outside the buffer
R8Stub ==
    \E z \in 0 .. 7 :
        PureCall(IF r8_ok(mem, rf, z)
                 THEN HelperCall("r8_stub", z, 1, << z >>, r8_stub(mem, rf, z))
                 ELSE [ HelperCall("r8_stub", z, 1, << z >>, undefined)
                          EXCEPT !.threw = TRUE ])

\* dump(), print(), print8(), print16(): console output only
Dump == PureCall(HelperCall("dump", undefined, 1, << >>, undefined))

\* NOP alone, and LD HL,(3) over the word 0x0201, whose step creates the
\* property rf[65535]
HelperImages == { << 0 >>, << 42, 3, 0, 1, 2 >> }

InitHelpers == mem \in HelperImages /\ Constructed

NextHelpers ==
    \/ Step
    \/ \E address \in 0 .. Len(mem) : Decode(address)
    \/ Dump
    \/ Parity \/ Rot8L \/ Rot8R \/ Format16 \/ Sync \/ Reset \/ Clamp
    \/ R8Stub \/ J8Stub \/ F358Stub \/ Add8 \/ Logic \/ Add16 \/ IncDec \/ Rotated
    \/ CplFlags \/ CarryFlag \/ DaaFlags

SpecHelpers == InitHelpers /\ [][NextHelpers]_vars

-----------------------------------------------------------------------------
(* Properties                                                              *)

StepCompleted == call.fn = "step" /\ ~call.threw

\* C1: decode(address) is read-only: a call of decode, also at an address
\* whose operand bytes run past the end of memory, leaves PC, every register,
\* every flag and memory as they were.
DecodeIsReadOnly ==
    [][ call'.fn = "decode" => (rf' = rf /\ mem' = mem) ]_vars

\* C2: once a step() has executed HALT (0x76) the engine is suspended: every
\* later step() leaves PC, registers, flags and memory unchanged.
HaltSuspends ==
    [][ (halted /\ call'.fn = "step") => (rf' = rf /\ mem' = mem) ]_vars

\* C3: step() never throws when PC is inside the image, whatever the opcode
\* and wherever its operands lie.
StepNeverThrows ==
    (call.fn = "step" /\ call.address \in 0 .. (Len(mem) - 1)) => ~call.threw

\* the length decode computes for the opcode at an address inside the image
ComputedLength(address) == 1 + Stars(Template(Index(mem, address)))
Truncated(address) ==
    /\ address \in 0 .. (Len(mem) - 1)
    /\ Index(mem, address) <= 159
    /\ address + ComputedLength(address) > Len(mem)

\* C4: decode at an address where the instruction runs past the end of memory
\* does not throw, returns the "unrecognized" text, and the Instruction it
\* returns reports the computed length (3 for a 3-byte opcode, 2 for a 2-byte
\* one).
DecodeTruncatedReportsLength ==
    (call.fn = "decode" /\ Truncated(call.address)) =>
        /\ ~call.threw
        /\ ins.defined /\ ins.syntax = "??"
        /\ Len(ins.bytes) = ComputedLength(call.address)

\* C5: for every opcode byte 0x00..0xFF at an in-range address decode returns
\* a defined mnemonic text.
DecodeLookupTotal ==
    (call.fn = "decode" /\ call.address \in 0 .. (Len(mem) - 1)) => ins.defined

\* C6: after every completed step() the 8-bit halves and the 16-bit pairs
\* agree: BC = 256*B + C, DE = 256*D + E, HL = 256*H + L, A = AF >> 8.
HalvesAndPairsAgree ==
    StepCompleted =>
        /\ rf.BC = 256 * rf.B + rf.C
        /\ rf.DE = 256 * rf.D + rf.E
        /\ rf.HL = 256 * rf.H + rf.L
        /\ rf.A = rf.AF \div 256

Regs8  == { "A", "B", "C", "D", "E", "H", "L", "I",
            "_A", "_B", "_C", "_D", "_E", "_H", "_L" }
Regs16 == { "AF", "BC", "DE", "HL", "_AF", "_BC", "_DE", "_HL" }

\* C7: whenever step() dispatches an opcode (every state between two calls,
\* the one right after reset included) each 8-bit register holds a value in
\* 0..255 and each 16-bit pair a value in 0..65535.
RegistersMaskedAtDispatch ==
    /\ \A r \in Regs8  : rf[r] \in 0 .. 255
    /\ \A r \in Regs16 : rf[r] \in 0 .. 65535

\* C8: after any sequence of step() calls from reset the program counter is
\* in 0..65535 (fetches and relative jumps wrap modulo 65536).
PcIs16Bit ==
    call.fn \in { "constructor", "step" } => rf.PC \in 0 .. 65535

\* the documented T-state cost of the two instructions the claim names
IsNop(opcode)       == opcode = 0
IsLdPairImm(opcode) == opcode \in { 1, 17, 33, 49 }

\* C9: the T-state counter is a number that accumulates instruction costs: a
\* completed NOP adds exactly 4 to it and a completed LD rr,nn exactly 10
\* (the counter of a fresh engine counting as 0).
CyclesAccumulate ==
    [][ (call'.fn = "step" /\ ~call'.threw) =>
          /\ cycles'.type = "number"
          /\ IsNop(call'.opcode)       => cycles'.n = cycles.n + 4
          /\ IsLdPairImm(call'.opcode) => cycles'.n = cycles.n + 10 ]_vars

\* C10: R is 0 after reset and every step() advances it by one modulo 128:
\* after n calls of step() R = n mod 128.
RCountsSteps == rf.R = nsteps % 128

\* The operand of an 8-bit INC/DEC/LD/ALU opcode selected by index y of RF_LUT,
\* read from memory image m and register file r
Operand(m, r, y) == IF y = 6 THEN Index(m, r.HL) ELSE r[Enum(RF_LUT, y)]

IncOpcodes == { 4, 12, 20, 28, 36, 44, 52, 60 }

\* C11: every completed 8-bit INC r (including INC (HL)) leaves the operand
\* (old + 1) mod 256, S = bit 7 of the result, Z = 1 iff the result is 0,
\* H = 1 iff the low nibble of the result is 0, PV = 1 iff the result is 0x80,
\* N = 0 and C unchanged, whatever the flags were before.
IncSetsFlags ==
    [][ (call'.fn = "step" /\ ~call'.threw /\ call'.opcode \in IncOpcodes) =>
          LET y      == (call'.opcode \div 8) % 8
              old    == Operand(mem, rf, y)
              result == Operand(mem', rf', y)
          IN  /\ result = (old + 1) % 256
              /\ rf'.flags.S = result \div 128
              /\ rf'.flags.Z = (IF result = 0 THEN 1 ELSE 0)
              /\ rf'.flags.H = (IF result % 16 = 0 THEN 1 ELSE 0)
              /\ rf'.flags.PV = (IF result = 128 THEN 1 ELSE 0)
              /\ rf'.flags.N = 0
              /\ rf'.flags.C = rf.flags.C ]_vars

\* the number of set bits of n
RECURSIVE PopCount(_)
PopCount(n) == IF n = 0 THEN 0 ELSE (n % 2) + PopCount(n \div 2)

\* C12 (as stated): parity(v) is 1 iff v has an even number of set bits, for
\* every v in 0..255.
ParityIsEven ==
    call.fn = "parity" =>
        call.ret = (IF PopCount(call.seed) % 2 = 0 THEN 1 ELSE 0)

\* C12 (amended): parity(v) is 1 iff v has an odd number of set bits, for
\* every v in 0..255; parity(0x03) = 0 and parity(0x07) = 1.
ParityIsOdd ==
    call.fn = "parity" => call.ret = PopCount(call.seed) % 2

ParityOfThree == call.fn = "parity" /\ call.seed = 3 /\ call.ret = 0

\* C14: rot8L applied eight times in succession to any v in 0..255 returns v,
\* and the value after each application is an 8-bit value with as many set
\* bits as v.
Rot8LEightTimes ==
    call.fn = "rot8L" =>
        /\ call.ret \in 0 .. 255
        /\ PopCount(call.ret) = PopCount(call.seed)
        /\ (call.count = 8 => call.ret = call.seed)

\* C16: for all bytes hi, lo and each pair BC, DE, HL: the pair set to
\* 256*hi + lo and synced in the pair-to-halves direction gives the halves hi
\* and lo, and A the high byte of AF; the halves set to hi, lo and synced in
\* the halves-to-pair direction give the pair 256*hi + lo.
SyncRoundTrip ==
    call.fn = "map" =>
        LET set == call.seed
            to16 == IsOpcode16(call.args[1])
        IN  /\ (set.kind = "pair" /\ to16) =>
                  /\ rf[set.reg.hi] = set.hi
                  /\ rf[set.reg.lo] = set.lo
                  /\ rf.A = rf.AF \div 256
            /\ (set.kind = "halves" /\ ~to16) =>
                  rf[set.reg.pair] = 256 * set.hi + set.lo

SyncedPairToHalves ==
    /\ call.fn = "map"
    /\ call.seed.kind = "pair" /\ IsOpcode16(call.args[1])
    /\ call.seed.reg.pair = "DE" /\ call.seed.hi = 18 /\ call.seed.lo = 52
    /\ rf.DE = 4660 /\ rf.D = 18 /\ rf.E = 52

\* bit i of n, and the bitwise combination of the low 8 bits of a and b by the
\* truth table tt (a sequence indexed by 2 * bit of a + bit of b + 1)
BitAt(n, i) == (n \div (2 ^ i)) % 2

RECURSIVE Logic8(_, _, _, _)
Logic8(tt, a, b, i) ==
    IF i = 8 THEN 0
    ELSE (2 ^ i) * tt[2 * BitAt(a, i) + BitAt(b, i) + 1] + Logic8(tt, a, b, i + 1)

TruthTable(y) ==
    CASE y = 4 -> << 0, 0, 0, 1 >>     \* AND
      [] y = 5 -> << 0, 1, 1, 0 >>     \* XOR
      [] y = 6 -> << 0, 1, 1, 1 >>     \* OR

\* C13: after AND, XOR or OR of A with any operand (opcodes 0xA0..0xB7),
\* PV = 1 iff the 8-bit logical result has an even number of set bits, S is
\* bit 7 of the result, Z = 1 iff the result is 0, H = 1 for AND and H = 0 for
\* XOR and OR.
LogicSetsFlags ==
    [][ (call'.fn = "step" /\ ~call'.threw /\ call'.opcode \in 160 .. 183) =>
          LET y      == (call'.opcode \div 8) % 8
              z      == call'.opcode % 8
              result == Logic8(TruthTable(y), rf.A, Operand(mem, rf, z), 0)
          IN  /\ rf'.flags.PV = (IF PopCount(result) % 2 = 0 THEN 1 ELSE 0)
              /\ rf'.flags.S = result \div 128
              /\ rf'.flags.Z = (IF result = 0 THEN 1 ELSE 0)
              /\ rf'.flags.H = (IF y = 4 THEN 1 ELSE 0) ]_vars

\* AND B with A = 0x7F and B = 0x01: the result 0x01 has one set bit
LogicOddResult ==
    /\ call.fn = "step" /\ ~call.threw /\ call.opcode = 160
    /\ rf.A = 1 /\ rf.B = 1
    /\ rf.flags.PV = 0 /\ rf.flags.H = 1 /\ rf.flags.Z = 0 /\ rf.flags.S = 0

FromBcd(x) == 10 * (x \div 16) + (x % 16)
ToBcd(n)   == 16 * (n \div 10) + (n % 10)

\* the step that just completed executed the DAA at offset k of the image
DaaDoneAt(k) ==
    /\ call.fn = "step" /\ ~call.threw /\ call.opcode = 39 /\ call.address = k

\* C15: for valid packed-BCD bytes a and b, ADD A,r (A = a, r = b) followed
\* by DAA leaves A the packed BCD of (a + b) mod 100 and C = 1 iff
\* a + b >= 100 in decimal; A = 0x0F with H set corrects to 0x15 with C = 0,
\* and A = 0x9A with C = 0, H = 0 corrects to 0x00 with C = 1.
DaaCorrectsBcdSum ==
    /\ (Len(mem) = 6 /\ DaaDoneAt(5)) =>
          LET sum == FromBcd(mem[2]) + FromBcd(mem[4])
          IN  /\ rf.A = ToBcd(sum % 100)
              /\ rf.flags.C = (IF sum >= 100 THEN 1 ELSE 0)
    /\ (Len(mem) = 4 /\ mem[3] = 135 /\ DaaDoneAt(3)) =>
          LET sum == 2 * FromBcd(mem[2])
          IN  /\ rf.A = ToBcd(sum % 100)
              /\ rf.flags.C = (IF sum >= 100 THEN 1 ELSE 0)
    /\ (mem = << 62, 240, 47, 39 >> /\ DaaDoneAt(3)) =>
          (rf.A = 21 /\ rf.flags.C = 0)
    /\ (mem = << 62, 154, 39 >> /\ DaaDoneAt(2)) =>
          (rf.A = 0 /\ rf.flags.C = 1)

\* 0x55 + 0x55 = 0xAA, corrected to 0x10 with carry: 55 + 55 = 110
DaaCarriesOut ==
    /\ mem = BcdAddB(85, 85) /\ DaaDoneAt(5)
    /\ rf.A = 16 /\ rf.flags.C = 1

LdPairOpcodes == { 1, 17, 33, 49 }

\* every 16-bit register of the file
Pairs == { "AF", "BC", "DE", "HL", "SP", "IX", "IY",
           "_AF", "_BC", "_DE", "_HL" }

\* C17: LD rr,nn with in-bounds operand bytes lo, hi leaves the pair selected
\* by p equal to 256*hi + lo, the pair's halves equal to hi and lo, PC
\* advanced by 3, and every other register pair as it was.
LdPairLoads ==
    [][ (call'.fn = "step" /\ ~call'.threw /\ call'.opcode \in LdPairOpcodes) =>
          LET p    == call'.opcode \div 16
              pair == Enum(RF_PAIR_LUT, p)
              lo   == Index(mem, call'.address + 1)
              hi   == Index(mem, call'.address + 2)
          IN  /\ rf'[pair] = 256 * hi + lo
              /\ p < 3 => /\ rf'[SyncPairs[p + 1].hi] = hi
                          /\ rf'[SyncPairs[p + 1].lo] = lo
              /\ rf'.PC = call'.address + 3
              /\ \A q \in Pairs \ { pair } : rf'[q] = rf[q] ]_vars

\* a displacement byte as a signed two's-complement value
Signed8(e) == IF e >= 128 THEN e - 256 ELSE e

\* C18: JR e with the displacement byte in bounds leaves PC at the address
\* following the displacement byte plus e taken as a signed 8-bit value, for
\* every e in 0..255.
JrAddsSignedDisplacement ==
    [][ (call'.fn = "step" /\ ~call'.threw /\ call'.opcode = 24) =>
          rf'.PC = (call'.address + 2)
                     + Signed8(Index(mem, call'.address + 1)) ]_vars

\* JR -2 at address 0 jumps to itself
JrToItself ==
    /\ call.fn = "step" /\ ~call.threw /\ call.opcode = 24 /\ call.address = 0
    /\ mem = << 24, 254 >> /\ rf.PC = 0

FlagPreservingOpcodes ==
    { 0, 1, 17, 33, 49, 2, 18, 10, 26, 3, 19, 35, 51, 11, 27, 43, 59,
      6, 14, 22, 30, 38, 46, 54, 62, 24, 32, 40, 48, 56, 16, 34, 50, 58 }
    \cup ((64 .. 127) \ { 118 })

\* C19: NOP, LD rr,nn, LD (BC)/(DE),A, LD A,(BC)/(DE), INC/DEC rr, LD r,n,
\* LD r,r', JR, JR cc, DJNZ, LD (nn),HL, LD (nn),A and LD A,(nn) leave every
\* flag and the low byte of AF as they were before the step.
FlagsPreserved ==
    [][ (call'.fn = "step" /\ ~call'.threw
           /\ call'.opcode \in FlagPreservingOpcodes) =>
          /\ rf'.flags = rf.flags
          /\ rf'.AF % 256 = rf.AF % 256 ]_vars

\* C20: JR NZ branches iff Z = 0, JR Z iff Z = 1, JR NC iff C = 0 and JR C iff
\* C = 1; PC ends at the address after the displacement, plus the signed
\* displacement when the branch is taken.
JrCcTestsCondition ==
    [][ (call'.fn = "step" /\ ~call'.threw
           /\ call'.opcode \in { 32, 40, 48, 56 }) =>
          LET taken == CASE call'.opcode = 32 -> rf.flags.Z = 0
                         [] call'.opcode = 40 -> rf.flags.Z = 1
                         [] call'.opcode = 48 -> rf.flags.C = 0
                         [] call'.opcode = 56 -> rf.flags.C = 1
              next  == call'.address + 2
          IN  rf'.PC = IF taken
                       THEN next + Signed8(Index(mem, call'.address + 1))
                       ELSE next ]_vars

\* The step being taken completes an opcode of the 8-bit ALU group whose
\* operation index (ALU_LUT) is in ys, on an accumulator and operand in 0..255
AluStep(ys) ==
    /\ call'.fn = "step" /\ ~call'.threw
    /\ call'.opcode \in 128 .. 191
    /\ ((call'.opcode \div 8) % 8) \in ys
    /\ rf.A \in 0 .. 255
    /\ Operand(mem, rf, call'.opcode % 8) \in 0 .. 255

\* the operand of the ALU opcode being executed
AluOperand == Operand(mem, rf, call'.opcode % 8)

\* the flags the same step would leave with opcode op in place of the one
\* fetched
FlagsOfOpcode(op) ==
    step([ mem EXCEPT ![call'.address + 1] = op ], rf, dyn, cycles).rf.flags

\* C21: after an opcode 0x80..0xBF, A is the 8-bit result of the selected
\* operation (ADD, ADC, SUB, SBC, AND, XOR, OR, each mod 256), also when that
\* result is 0; CP leaves A unchanged and the flags of SUB on the same
\* operands.
AluWritesBack ==
    [][ AluStep(0 .. 7) =>
          LET y == (call'.opcode \div 8) % 8
              a == rf.A
              v == AluOperand
              c == rf.flags.C
          IN  CASE y = 0 -> rf'.A = (a + v) % 256
                [] y = 1 -> rf'.A = (a + v + c) % 256
                [] y = 2 -> rf'.A = (a - v) % 256
                [] y = 3 -> rf'.A = (a - v - c) % 256
                [] y \in { 4, 5, 6 } -> rf'.A = Logic8(TruthTable(y), a, v, 0)
                [] y = 7 -> /\ rf'.A = a
                            /\ rf'.flags = FlagsOfOpcode(call'.opcode - 40) ]_vars

\* a byte as a signed two's-complement value is Signed8; a signed result that
\* does not fit in 8 bits
Overflows(n) == n < -128 \/ n > 127

\* C24: after SUB A,r and CP r, N = 1, C = 1 iff b > a, H = 1 iff the low
\* nibble of b exceeds that of a, S and Z are those of (a - b) mod 256, and
\* PV = 1 iff the signed subtraction a - b overflows.
SubSetsFlags ==
    [][ AluStep({ 2, 7 }) =>
          LET a == rf.A
              b == AluOperand
              r == (a - b) % 256
              f == rf'.flags
          IN  /\ f.N = 1
              /\ f.C = (IF b > a THEN 1 ELSE 0)
              /\ f.H = (IF (b % 16) > (a % 16) THEN 1 ELSE 0)
              /\ f.S = r \div 128
              /\ f.Z = (IF r = 0 THEN 1 ELSE 0)
              /\ f.PV = (IF Overflows(Signed8(a) - Signed8(b)) THEN 1 ELSE 0) ]_vars

\* 0x7F + 0x01 = 0x80: signed overflow and a half carry, no carry
AddOverflowed ==
    /\ call.fn = "step" /\ ~call.threw /\ call.opcode = 128
    /\ mem = << 62, 127, 6, 1, 128 >>
    /\ rf.A = 128 /\ rf.flags.PV = 1 /\ rf.flags.S = 1 /\ rf.flags.H = 1
    /\ rf.flags.C = 0 /\ rf.flags.Z = 0 /\ rf.flags.N = 0

\* add8(a, b) on the flags of the current state, for each of the 256 x 256
\* pairs of bytes
Add8OnEveryByte ==
    \A a \in 0 .. 255, b \in 0 .. 255 :
        LET r == (a + b) % 256
            f == add8(rf.flags, a, b)
        IN  /\ f.S = r \div 128
            /\ f.Z = (IF r = 0 THEN 1 ELSE 0)
            /\ f.C = (IF a + b > 255 THEN 1 ELSE 0)
            /\ f.H = (IF (a % 16) + (b % 16) > 15 THEN 1 ELSE 0)
            /\ f.PV = (IF Overflows(Signed8(a) + Signed8(b)) THEN 1 ELSE 0)
            /\ f.N = 0

\* C25: after ADD A,r, S is bit 7 of (a+b) mod 256, Z = 1 iff that is 0,
\* C = 1 iff a+b > 255, H = 1 iff the low nibbles sum past 0x0F, PV = 1 iff
\* the signed addition overflows, and N = 0: for every ADD A,r the engine
\* executes, and for add8 applied to every a and b in 0..255 on the flags
\* that 0x7F + 0x01 leaves.
AddSetsFlags ==
    /\ [][ AluStep({ 0 }) =>
             LET a == rf.A
                 b == AluOperand
                 r == (a + b) % 256
                 f == rf'.flags
             IN  /\ f.S = r \div 128
                 /\ f.Z = (IF r = 0 THEN 1 ELSE 0)
                 /\ f.C = (IF a + b > 255 THEN 1 ELSE 0)
                 /\ f.H = (IF (a % 16) + (b % 16) > 15 THEN 1 ELSE 0)
                 /\ f.PV = (IF Overflows(Signed8(a) + Signed8(b)) THEN 1 ELSE 0)
                 /\ f.N = 0 ]_vars
    /\ [](AddOverflowed => Add8OnEveryByte)

\* C26: after ADC A,r with carry-in c, H = 1 iff the low nibbles and c sum
\* past 0x0F, C = 1 iff a + b + c > 255 and PV = 1 iff signed(a) + signed(b)
\* + c overflows; after SBC A,r the same for a - b - c.
AdcSbcSetFlags ==
    [][ AluStep({ 1, 3 }) =>
          LET y == (call'.opcode \div 8) % 8
              a == rf.A
              b == AluOperand
              c == rf.flags.C
              f == rf'.flags
          IN  IF y = 1
              THEN /\ f.H = (IF (a % 16) + (b % 16) + c > 15 THEN 1 ELSE 0)
                   /\ f.C = (IF a + b + c > 255 THEN 1 ELSE 0)
                   /\ f.PV = (IF Overflows(Signed8(a) + Signed8(b) + c)
                              THEN 1 ELSE 0)
              ELSE /\ f.H = (IF (a % 16) - (b % 16) - c < 0 THEN 1 ELSE 0)
                   /\ f.C = (IF a - b - c < 0 THEN 1 ELSE 0)
                   /\ f.PV = (IF Overflows(Signed8(a) - Signed8(b) - c)
                              THEN 1 ELSE 0) ]_vars

\* C22: EX AF,AF' leaves A and the whole flags byte (the flag bits and the
\* low byte of AF) equal to what the shadow pair AF' held before the step, and
\* AF' holding the A and flags that were primary before the step.
ExAfExchanges ==
    [][ (call'.fn = "step" /\ ~call'.threw /\ call'.opcode = 8
           /\ rf.A \in 0 .. 255) =>
          /\ rf'.A = rf._AF \div 256
          /\ PackFlags(rf'.flags) = rf._AF % 256
          /\ rf'.AF % 256 = rf._AF % 256
          /\ rf'._AF = 256 * rf.A + PackFlags(rf.flags) ]_vars

\* C23: LD HL,(nn) with nn and nn+1 in bounds leaves HL = mem[nn] +
\* 256*mem[nn+1], L = mem[nn] and H = mem[nn+1]; so LD (nn),HL followed by
\* LD HL,(nn) at the same nn reloads the stored value of HL.
LdHlLoadsWord ==
    [][ (call'.fn = "step" /\ ~call'.threw /\ call'.opcode = 42) =>
          LET nn == readUInt16LE(mem, call'.address + 1)
              lo == Index(mem, nn)
              hi == Index(mem, nn + 1)
          IN  (lo \in 0 .. 255 /\ hi \in 0 .. 255) =>
                /\ rf'.HL = lo + 256 * hi
                /\ rf'.L = lo
                /\ rf'.H = hi ]_vars

\* C27: after DAA the S and Z flags describe the adjusted accumulator: Z = 1
\* iff the new A is 0, S = bit 7 of the new A, and PV = 1 iff the new A has
\* even parity (DAA on A = 0x9A with C = 0, H = 0 gives A = 0x00 and Z = 1).
DaaFlagsDescribeResult ==
    (call.fn = "step" /\ ~call.threw /\ call.opcode = 39) =>
        /\ rf.flags.Z = (IF rf.A = 0 THEN 1 ELSE 0)
        /\ rf.flags.S = rf.A \div 128
        /\ rf.flags.PV = (IF PopCount(rf.A) % 2 = 0 THEN 1 ELSE 0)

IncDecPairOpcodes == { 3, 19, 35, 51, 11, 27, 43, 59 }

\* C28: INC rr / DEC rr change the pair selected by p (BC, DE, HL or SP) by
\* +1 (q = 0) or -1 (q = 1) modulo 65536, for all four pairs including SP,
\* and leave the other three pairs unchanged.
PairStepsByOne ==
    [][ (call'.fn = "step" /\ ~call'.threw
           /\ call'.opcode \in IncDecPairOpcodes) =>
          LET pair == Enum(RF_PAIR_LUT, call'.opcode \div 16)
              d    == IF (call'.opcode \div 8) % 2 = 0 THEN 1 ELSE -1
          IN  rf[pair] \in 0 .. 65535 =>
                /\ rf'[pair] = (rf[pair] + d) % 65536
                /\ \A other \in { "BC", "DE", "HL", "SP" } \ { pair } :
                      rf'[other] = rf[other] ]_vars

\* C29: ADD HL,rr on 16-bit HL and rr leaves HL = (HL + rr) mod 65536 with H
\* and L resynchronized, C = 1 iff HL + rr > 0xFFFF, N = 0, S, Z and PV
\* unchanged, and the half-carry flag H = 1 iff (HL & 0x0FFF) + (rr & 0x0FFF)
\* > 0x0FFF (the exact carry out of bit 11).
AddHlAdds ==
    [][ (call'.fn = "step" /\ ~call'.threw
           /\ call'.opcode \in { 9, 25, 41, 57 }) =>
          LET hl == rf.HL
              rr == rf[Enum(RF_PAIR_LUT, call'.opcode \div 16)]
              f  == rf'.flags
          IN  (hl \in 0 .. 65535 /\ rr \in 0 .. 65535) =>
                /\ rf'.HL = (hl + rr) % 65536
                /\ rf'.H = rf'.HL \div 256
                /\ rf'.L = rf'.HL % 256
                /\ f.C = (IF hl + rr > 65535 THEN 1 ELSE 0)
                /\ f.N = 0
                /\ f.S = rf.flags.S /\ f.Z = rf.flags.Z /\ f.PV = rf.flags.PV
                /\ f.H = (IF (hl % 4096) + (rr % 4096) > 4095 THEN 1 ELSE 0) ]_vars

\* 0x0FFF + 0x0001 = 0x1000: the carry out of the low byte ripples through
\* bits 8..11 into the half carry, after XOR A has set Z and PV
AddHlHalfCarried ==
    /\ call.fn = "step" /\ ~call.threw /\ call.opcode = 9
    /\ mem = << 175, 33, 255, 15, 1, 1, 0, 9 >>
    /\ rf.HL = 4096 /\ rf.H = 16 /\ rf.L = 0 /\ rf.BC = 1
    /\ rf.flags.H = 1 /\ rf.flags.C = 0 /\ rf.flags.N = 0
    /\ rf.flags.Z = 1 /\ rf.flags.PV = 1

\* the step that just completed is the RRA that ends a program
\* [SCF;] LD A,a; RLA; RRA
RlaRraDone ==
    /\ call.fn = "step" /\ ~call.threw /\ call.opcode = 31
    /\ Len(mem) \in { 4, 5 } /\ call.address = Len(mem) - 1
    /\ mem[Len(mem) - 3] = 62 /\ mem[Len(mem) - 1] = 23
    /\ mem[1] = (IF Len(mem) = 5 THEN 55 ELSE 62)

\* C30: for A in 0..255 and carry-in c, RLCA leaves A = ((A << 1) | (A >> 7))
\* & 0xFF and C = old bit 7; RRCA leaves A = (A >> 1) | ((A & 1) << 7) and
\* C = old bit 0; RLA leaves A = ((A << 1) | c) & 0xFF and C = old bit 7; RRA
\* leaves A = (A >> 1) | (c << 7) and C = old bit 0; all four clear H and N
\* and leave S, Z and PV unchanged; and RLA followed by RRA restores both A
\* and C.
RotatesRotate ==
    /\ [][ (call'.fn = "step" /\ ~call'.threw
              /\ call'.opcode \in { 7, 15, 23, 31 } /\ rf.A \in 0 .. 255) =>
             LET a == rf.A
                 c == rf.flags.C
                 f == rf'.flags
             IN  /\ CASE call'.opcode = 7 ->
                           /\ rf'.A = ((2 * a) % 256) + (a \div 128)
                           /\ f.C = a \div 128
                      [] call'.opcode = 15 ->
                           /\ rf'.A = (a \div 2) + 128 * (a % 2)
                           /\ f.C = a % 2
                      [] call'.opcode = 23 ->
                           /\ rf'.A = ((2 * a) % 256) + c
                           /\ f.C = a \div 128
                      [] call'.opcode = 31 ->
                           /\ rf'.A = (a \div 2) + 128 * c
                           /\ f.C = a % 2
                 /\ f.H = 0 /\ f.N = 0
                 /\ f.S = rf.flags.S /\ f.Z = rf.flags.Z
                 /\ f.PV = rf.flags.PV ]_vars
    /\ [](RlaRraDone =>
            /\ rf.A = mem[Len(mem) - 2]
            /\ rf.flags.C = (IF Len(mem) = 5 THEN 1 ELSE 0))

\* SCF; LD A,0x80; RLA; RRA: RLA leaves A = 0x01 with C = 1, and RRA
\* restores A = 0x80 and C = 1
RlaRraRestored ==
    /\ RlaRraDone
    /\ mem = << 55, 62, 128, 23, 31 >>
    /\ rf.A = 128 /\ rf.flags.C = 1 /\ rf.flags.H = 0 /\ rf.flags.N = 0

\* the image is LD B,n; DJNZ -2, a DJNZ that targets itself
DjnzSelfLoop ==
    Len(mem) = 4 /\ mem[1] = 6 /\ mem[3] = 16 /\ mem[4] = 254

\* the number of times that loop is to run: n, or 256 when n = 0
DjnzRuns == IF mem[2] = 0 THEN 256 ELSE mem[2]

\* C31: DJNZ e decrements B modulo 256 and branches to the address after the
\* displacement plus the signed displacement iff the decremented B is
\* non-zero, otherwise continues after the displacement; so a DJNZ that
\* targets itself, entered with B = n, falls through after exactly n
\* executions (256 when n = 0) with B = 0.  Until then the harness loop
\* goes on: its condition holds and step() has not thrown.
DjnzCountsDown ==
    /\ [][ (call'.fn = "step" /\ ~call'.threw /\ call'.opcode = 16
              /\ rf.B \in 0 .. 255) =>
             LET b    == (rf.B - 1) % 256
                 next == call'.address + 2
             IN  /\ rf'.B = b
                 /\ rf'.PC = IF b # 0
                             THEN next + Signed8(Index(mem, call'.address + 1))
                             ELSE next ]_vars
    /\ [](DjnzSelfLoop =>
            /\ rf.PC \in { 0, 2, 4 }
            /\ ~call.threw
            /\ rf.PC # 4 => (rf.PC < Len(mem) /\ nsteps < MaxLoopSteps)
            /\ rf.PC = 2 => /\ nsteps \in 1 .. DjnzRuns
                            /\ rf.B = (mem[2] - (nsteps - 1)) % 256
            /\ rf.PC = 4 => /\ nsteps = 1 + DjnzRuns
                            /\ rf.B = 0)

\* LD B,0; DJNZ -2 has left the loop after 256 executions of DJNZ
DjnzWrappedAround ==
    /\ mem = << 6, 0, 16, 254 >>
    /\ call.fn = "step" /\ ~call.threw /\ call.opcode = 16
    /\ rf.PC = 4 /\ rf.B = 0 /\ nsteps = 257

\* The step being taken jumps: it executes JR, or a JR cc or DJNZ whose
\* handler takes the branch, which it charges 12 or 13 T-states (7 or 8
\* otherwise)
StepJumps ==
    \/ call'.opcode = 24
    \/ /\ call'.opcode \in { 16, 32, 40, 48, 56 }
       /\ Dispatch(mem, [ rf EXCEPT !.PC = call'.address + 1 ], dyn,
                   call'.opcode).cycles \in { 12, 13 }

\* C32: for every opcode 0x00..0xFF whose operand bytes are in bounds and
\* which does not take a jump, the number of bytes of the Instruction that
\* decode(PC) returns equals the amount by which step() advances PC.
DecodeAndStepAgree ==
    [][ (call'.fn = "step" /\ ~call'.threw /\ call'.opcode \in 0 .. 255
           /\ call'.address = rf.PC /\ ~StepJumps) =>
          rf'.PC - rf.PC = Len(ins'.bytes) ]_vars

\* LD (0x0008),HL as the first instruction: decoded as three bytes, PC = 3
\* after the step, and the halves L and H stored at addresses 8 and 9
StoreHlDecodedAndRun ==
    /\ call.fn = "step" /\ ~call.threw /\ call.opcode = 34 /\ call.address = 0
    /\ ins.bytes = << 34, 8, 0 >> /\ ins.syntax # "??" /\ rf.PC = 3
    /\ mem[9] = 255 /\ mem[10] = 255

\* opcodes that do not name HL, BC or their halves: NOP, LD A,n, SCF, LD D,n,
\* LD E,n and INC DE
SeedNeutralOpcodes == { 0, 62, 55, 22, 30, 19 }

\* C33: after construction and the writes HL = 0xFE00 and BC = 0x00FF, a
\* first instruction that does not target HL or BC leaves HL = 0xFE00 and
\* BC = 0x00FF, so that the second instruction observes the seeded values.
SeedsSurviveFirstStep ==
    [][ (call.fn = "constructor" /\ rf.HL = 65024 /\ rf.BC = 255
           /\ call'.fn = "step" /\ ~call'.threw
           /\ call'.opcode \in SeedNeutralOpcodes) =>
          (rf'.HL = 65024 /\ rf'.BC = 255) ]_vars

=============================================================================
